---- MODULE Spec2Model ----
(***************************************************************************)
(* A model of tools/wrap/wrap.py (ELL's "wrap" driver): the argument table *)
(* ModuleBuilder.arguments, parse_command_line, the steps of run and the   *)
(* top-level handler of __main__.                                          *)
(*                                                                         *)
(* Python values are tagged records (Str, Bool, Num, None, Unset) so that  *)
(* a string 'true' and the boolean True are different values.  The         *)
(* collaborators that are not part of wrap.py (find_ell, buildtools,       *)
(* logger) are opaque: a call to one of them either returns a symbolic     *)
(* result or raises.                                                       *)
(***************************************************************************)
EXTENDS Integers, Sequences, FiniteSets, TLC

VARIABLES
    argv,         \* sys.argv[1:]
    fs,           \* the regular files that exist
    sys_platform, \* sys.platform / platform.system() of the interpreter
    pc,           \* position of the main program
    builder,      \* the attributes of the ModuleBuilder object
    out_file,     \* run's local variable out_file
    trace,        \* the outside effects of run so far, in order
    exc,          \* the exception in flight or last raised
    logged,       \* messages logged by the top-level handler
    exit_status   \* the status the process exited with (NoStatus while running)

vars == <<argv, fs, sys_platform, pc, builder, out_file, trace, exc, logged, exit_status>>

----------------------------------------------------------------------------
(* Python values *)

Str(s) == [t |-> "str", v |-> s]
Bool(b) == [t |-> "bool", v |-> b]
Num(i) == [t |-> "int", v |-> i]
List(xs) == [t |-> "list", v |-> xs]
Dict(d) == [t |-> "dict", v |-> d]
None == [t |-> "none", v |-> "None"]
\* an attribute that has not been assigned (reading it is an AttributeError)
Unset == [t |-> "unset", v |-> "unset"]

\* Python truthiness of a value (`if not x`, `x or y`)
Truthy(x) ==
    CASE x.t = "bool" -> x.v
      [] x.t = "str" -> x.v # ""
      [] x.t = "int" -> x.v # 0
      [] OTHER -> FALSE

----------------------------------------------------------------------------
(* Strings: the str and os.path functions wrap.py uses *)

CharAt(s, i) == SubSeq(s, i, i)

StartsWith(s, p) == Len(s) >= Len(p) /\ SubSeq(s, 1, Len(p)) = p

\* the largest index of character c in s, 0 when there is none
LastIndexOf(s, c) ==
    LET found == {i \in 1..Len(s) : CharAt(s, i) = c}
    IN IF found = {} THEN 0 ELSE CHOOSE i \in found : \A j \in found : j <= i

RECURSIVE str_replace(_, _, _)
\* s.replace(old, new) for a one-character old
str_replace(s, old, new) ==
    IF Len(s) = 0 THEN ""
    ELSE (IF CharAt(s, 1) = old THEN new ELSE CharAt(s, 1))
             \o str_replace(SubSeq(s, 2, Len(s)), old, new)

UpperCase == "ABCDEFGHIJKLMNOPQRSTUVWXYZ"
LowerCase == "abcdefghijklmnopqrstuvwxyz"

RECURSIVE str_lower(_)
\* s.lower()
str_lower(s) ==
    IF Len(s) = 0 THEN ""
    ELSE LET c == CharAt(s, 1)
             k == LastIndexOf(UpperCase, c)
         IN (IF k = 0 THEN c ELSE CharAt(LowerCase, k)) \o str_lower(SubSeq(s, 2, Len(s)))

\* os.path.split(p)[1] (posix)
path_tail(p) == SubSeq(p, LastIndexOf(p, "/") + 1, Len(p))

\* os.path.dirname(p) (posix, no trailing slashes)
path_dirname(p) ==
    LET k == LastIndexOf(p, "/")
    IN IF k = 0 THEN "" ELSE IF k = 1 THEN "/" ELSE SubSeq(p, 1, k - 1)

\* os.path.basename(p)
path_basename(p) == path_tail(p)

\* os.path.splitext(name)[0] for a name without directory part: the extension
\* starts at the last dot, unless only dots precede it
splitext_root(name) ==
    LET d == LastIndexOf(name, ".")
    IN IF d > 1 /\ (\E j \in 1..(d - 1) : CharAt(name, j) # ".")
       THEN SubSeq(name, 1, d - 1)
       ELSE name

\* os.path.join(a, b) (posix)
path_join(a, b) ==
    IF StartsWith(b, "/") THEN b
    ELSE IF a = "" \/ CharAt(a, Len(a)) = "/" THEN a \o b
    ELSE a \o "/" \o b

Digits == "0123456789"

IsDigits(s) == Len(s) > 0 /\ \A i \in 1..Len(s) : LastIndexOf(Digits, CharAt(s, i)) > 0

RECURSIVE DigitsValue(_)
DigitsValue(s) ==
    IF Len(s) = 0 THEN 0
    ELSE 10 * DigitsValue(SubSeq(s, 1, Len(s) - 1)) + (LastIndexOf(Digits, CharAt(s, Len(s))) - 1)

----------------------------------------------------------------------------
(* ModuleBuilder.arguments: the keys "help" are left out (text only) *)

arguments ==
    [ model_file |-> [short |-> "f", required |-> TRUE],
      module_name |-> [short |-> "n", default |-> None],
      target |-> [short |-> "t", default |-> Str("host"),
                  choices |-> {"pi3", "pi0", "orangepi0", "pi3_64", "aarch64", "host"}],
      skip_ellcode |-> [short |-> "skip_ellcode", default |-> Bool(FALSE)],
      language |-> [short |-> "l", default |-> Str("python"), choices |-> {"python", "cpp"}],
      llvm_format |-> [short |-> "if", default |-> Str("bc"),
                       choices |-> {"ir", "bc", "asm", "obj"}],
      outdir |-> [short |-> "od", default |-> None],
      verbose |-> [short |-> "v", default |-> Bool(FALSE)],
      profile |-> [short |-> "p", default |-> Bool(FALSE)],
      blas |-> [short |-> "b", default |-> Str("true")],
      no_fuse_linear_ops |-> [short |-> "no_fuse_linear_ops", default |-> Bool(FALSE)],
      no_optimize_reorder |-> [short |-> "no_optimize_reorder", default |-> Bool(FALSE)],
      no_opt_tool |-> [short |-> "no_opt_tool", default |-> Bool(FALSE)],
      no_llc_tool |-> [short |-> "no_llc_tool", default |-> Bool(FALSE)],
      no_optimize |-> [short |-> "no_opt", default |-> Bool(FALSE)],
      no_parallelize |-> [short |-> "no_par", default |-> Bool(FALSE)],
      no_vectorize |-> [short |-> "no_vec", default |-> Bool(FALSE)],
      optimization_level |-> [short |-> "ol", default |-> Str("3"),
                              choices |-> {"0", "1", "2", "3", "g"}],
      debug |-> [short |-> "dbg", default |-> Bool(FALSE)],
      global_value_alignment |-> [short |-> "gva", default |-> Num(32), type |-> "int"],
      stats |-> [short |-> "stats", default |-> Bool(FALSE)] ]

ArgNames == DOMAIN arguments

\* str2bool without the lower(): "Yes" and "TRUE" are taken for false
str2bool_case_sensitive(v) == v \in {"yes", "true", "t", "1"}

\* ModuleBuilder.str2bool
str2bool(v) == str_lower(v) \in {"yes", "true", "t", "1"}

\* ModuleBuilder.get_objext
get_objext(target) == "o"

----------------------------------------------------------------------------
(* The parser parse_command_line builds from the table, and argparse's     *)
(* parse_args on it.  Tokens are whole command-line words; option          *)
(* abbreviations and the --flag=value form are not in the token alphabet.  *)

LongOption(arg) == "--" \o arg
ShortOption(arg) == "-" \o arguments[arg].short

\* the two option strings add_argument registers for a table entry
OptionStrings(arg) == {LongOption(arg), ShortOption(arg)}

\* which of the four add_argument calls registers each entry
ArgAction ==
    [arg \in ArgNames |->
        LET argdef == arguments[arg]
        IN IF "required" \in DOMAIN argdef THEN "required"
           ELSE IF "choices" \in DOMAIN argdef THEN "choices"
           ELSE IF argdef.default.t = "bool" /\ ~argdef.default.v THEN "store_true"
           ELSE "store"]

\* the type= of each entry: str unless the table names one
ArgType ==
    [arg \in ArgNames |->
        IF "type" \in DOMAIN arguments[arg] THEN arguments[arg].type ELSE "str"]

\* a parser whose add_argument calls pass no default=
ArgDefaults_none_declared == [arg \in ArgNames |-> None]

\* the namespace before any token is read
ArgDefaults ==
    [arg \in ArgNames |->
        CASE ArgAction[arg] = "required" -> None
          [] ArgAction[arg] = "store_true" -> Bool(FALSE)
          [] OTHER -> arguments[arg].default]

\* the parser's option strings, each with the entry it was registered for
OptionDest ==
    [tok \in UNION {OptionStrings(arg) : arg \in ArgNames} |->
        CHOOSE arg \in ArgNames : tok \in OptionStrings(arg)]

IsOptionString(tok) == tok \in DOMAIN OptionDest

\* type conversion of an option's value; Unset stands for a ValueError
ConvertValue(arg, tok) ==
    IF ArgType[arg] = "int"
    THEN (IF IsDigits(tok) THEN Num(DigitsValue(tok)) ELSE Unset)
    ELSE Str(tok)

\* argparse takes a word for an option, not for a value, when it starts with
\* '-', is longer than that and is no negative number
LooksLikeOption(tok) ==
    StartsWith(tok, "-") /\ Len(tok) > 1 /\ ~IsDigits(SubSeq(tok, 2, Len(tok)))

ParseError == [error |-> TRUE, ns |-> ArgDefaults]

RECURSIVE ParseTokens(_, _)
\* argparse consuming the tokens left to right into the namespace ns
ParseTokens(toks, ns) ==
    IF toks = <<>> THEN [error |-> FALSE, ns |-> ns]
    ELSE LET tok == Head(toks)
         IN IF ~IsOptionString(tok) THEN ParseError  \* unrecognized arguments
            ELSE LET arg == OptionDest[tok]
                 IN IF ArgAction[arg] = "store_true"
                    THEN ParseTokens(Tail(toks), [ns EXCEPT ![arg] = Bool(TRUE)])
                    ELSE IF Len(toks) < 2 \/ LooksLikeOption(toks[2])
                    THEN ParseError  \* expected one argument
                    ELSE LET val == ConvertValue(arg, toks[2])
                         IN IF val = Unset THEN ParseError  \* invalid int value
                            ELSE IF ArgAction[arg] = "choices"
                                    /\ val.v \notin arguments[arg].choices
                            THEN ParseError  \* invalid choice
                            ELSE ParseTokens(SubSeq(toks, 3, Len(toks)),
                                             [ns EXCEPT ![arg] = val])

\* arg_parser.parse_args(args): an error is argparse's exit with status 2
parse_args(args) ==
    LET r == ParseTokens(args, ArgDefaults)
    IN IF r.error THEN r
       ELSE IF \E arg \in ArgNames : ArgAction[arg] = "required" /\ r.ns[arg] = None
       THEN ParseError  \* the following arguments are required
       ELSE r

----------------------------------------------------------------------------
(* ModuleBuilder.__init__ and parse_command_line *)

\* the attributes __init__ assigns; the others are assigned later
NewBuilder ==
    [ config |-> None, files |-> List(<<>>), includes |-> List(<<>>), tools |-> None,
      language |-> Str("python"), target |-> Str("host"), verbose |-> Bool(FALSE),
      llvm_format |-> None, no_opt_tool |-> Bool(FALSE), no_llc_tool |-> Bool(FALSE),
      profile |-> Bool(FALSE), blas |-> Bool(TRUE), optimize |-> Bool(TRUE),
      parallelize |-> Bool(TRUE), vectorize |-> Bool(TRUE), optimization_level |-> None,
      fuse_linear_ops |-> Bool(TRUE), optimize_reorder |-> Bool(TRUE), debug |-> Bool(FALSE),
      model_name |-> Str(""), func_name |-> Str("Predict"), objext |-> Str("o"),
      logger |-> None, skip_ellcode |-> Bool(FALSE),
      model_file |-> Unset, model_file_base |-> Unset, output_dir |-> Unset,
      swig |-> Unset, cpp_header |-> Unset, compile_args |-> Unset,
      global_value_alignment |-> Unset, stats |-> Unset, times |-> Unset,
      cmake_template |-> Unset, module_init_template |-> Unset,
      build_root |-> Unset, ell_root |-> Unset, config_file |-> Unset ]

\* args.index('--'): the first position of the separator
SeparatorIndex(args) ==
    CHOOSE i \in 1..Len(args) : args[i] = "--" /\ \A j \in 1..(i - 1) : args[j] # "--"

\* the split that takes the separator out but hands every word to argparse
SplitArgs_parse_all(args) ==
    IF \E i \in 1..Len(args) : args[i] = "--"
    THEN [args |-> SubSeq(args, 1, SeparatorIndex(args) - 1)
                      \o SubSeq(args, SeparatorIndex(args) + 1, Len(args)),
          compile_args |-> SubSeq(args, SeparatorIndex(args) + 1, Len(args))]
    ELSE [args |-> args, compile_args |-> <<>>]

\* lines 250-254: the words handed to argparse and the pass-through words
SplitArgs(args) ==
    IF \E i \in 1..Len(args) : args[i] = "--"
    THEN [args |-> SubSeq(args, 1, SeparatorIndex(args) - 1),
          compile_args |-> SubSeq(args, SeparatorIndex(args) + 1, Len(args))]
    ELSE [args |-> args, compile_args |-> <<>>]

\* lines 258-272: the assignments before the output directory is checked;
\* of the logger logger.setup returns only getVerbose() is modelled
ConfigureNames(b, args, getVerbose) ==
    LET tail == path_tail(args.model_file.v)
        base == splitext_root(tail)
        target == args.target
    IN [b EXCEPT
          !.logger = [t |-> "logger", v |-> getVerbose],
          !.model_file = args.model_file,
          !.model_file_base = Str(base),
          !.model_name = IF ~Truthy(args.module_name)
                         THEN Str(str_replace(base, "-", "_"))
                         ELSE args.module_name,
          !.language = args.language,
          !.target = target,
          !.skip_ellcode = args.skip_ellcode,
          !.objext = Str(get_objext(target.v)),
          !.output_dir = IF args.outdir = None THEN target ELSE args.outdir]

\* the check against a file with the very name of the output directory
OutdirConflict_same_name(b, files) == b.output_dir.v \in files

\* line 273: the check of the output directory against a python module
OutdirConflict(b, files) == (b.output_dir.v \o ".py") \in files

\* lines 276-297: the remaining assignments
ConfigureOptions(b, args, compile_args) ==
    LET level == args.optimization_level
        optimize == ~Truthy(args.no_optimize)
    IN [b EXCEPT
          !.profile = args.profile,
          !.verbose = Bool(b.logger.v \/ Truthy(args.verbose)),
          !.llvm_format = args.llvm_format,
          !.optimization_level = level,
          !.no_opt_tool = Bool(Truthy(args.no_opt_tool) \/ level.v \in {"0", "g"}),
          !.no_llc_tool = args.no_llc_tool,
          !.optimize = Bool(optimize),
          !.parallelize = Bool(optimize /\ ~Truthy(args.no_parallelize)),
          !.vectorize = Bool(optimize /\ ~Truthy(args.no_vectorize)),
          !.fuse_linear_ops = Bool(~Truthy(args.no_fuse_linear_ops)),
          !.optimize_reorder = Bool(~Truthy(args.no_optimize_reorder)),
          !.debug = args.debug,
          !.blas = Bool(str2bool(args.blas.v)),
          !.swig = Bool(args.language.v # "cpp"),
          !.cpp_header = Bool(args.language.v = "cpp"),
          !.compile_args = List(compile_args),
          !.global_value_alignment = args.global_value_alignment,
          !.stats = args.stats,
          !.times = Dict(<<>>)]

Exception(type, msg) == [type |-> type, msg |-> msg]
NoException == Exception("", "")

\* run with llc called before opt
RunOrder_llc_first ==
    <<"find_ell", "find_files", "copy_files", "copy_includes", "compile", "swig", "llc",
      "opt", "write_stats", "create_cmake_file", "create_module_init_file", "success">>

\* the statements of run in the order of lines 382-458, each a position of
\* the program
RunOrder ==
    <<"find_ell", "find_files", "copy_files", "copy_includes", "compile", "swig", "opt",
      "llc", "write_stats", "create_cmake_file", "create_module_init_file", "success">>

\* the position after the statement at position here
After(here) == RunOrder[(CHOOSE i \in 1..Len(RunOrder) : RunOrder[i] = here) + 1]

\* what parse_command_line(args) does to a builder b with the files as they
\* are: an argparse error exits with status 2; the exception of line 274
\* leaves the assignments made before it; otherwise the method returns
ParseResult(b, args, files, getVerbose) ==
    LET split == SplitArgs(args)
        parsed == parse_args(split.args)
        named == ConfigureNames(b, parsed.ns, getVerbose)
    IN IF parsed.error
       THEN [returned |-> FALSE, builder |-> b, exit_status |-> Num(2),
             exc |-> Exception("SystemExit", "argparse error")]
       ELSE IF OutdirConflict(named, files)
       THEN [returned |-> FALSE, builder |-> named, exit_status |-> Num(1),
             exc |-> Exception("Exception", "python module conflicts with outdir")]
       ELSE [returned |-> TRUE,
             builder |-> ConfigureOptions(named, parsed.ns, split.compile_args),
             exit_status |-> None, exc |-> NoException]

\* the process ends at once with the given status (sys.exit, or the
\* interpreter ending on an exception nobody caught)
Exits(status) ==
    /\ pc' = "exited"
    /\ exit_status' = status

\* builder.parse_command_line(sys.argv[1:]) at line 464, outside the try:
\* when it does not return, nothing catches what it raised and the
\* interpreter ends the process
parse_command_line ==
    /\ pc = "main"
    /\ \E getVerbose \in BOOLEAN :
         \E r \in {ParseResult(builder, argv, fs, getVerbose)} :
            /\ builder' = r.builder
            /\ exc' = r.exc
            /\ IF r.returned
               THEN pc' = RunOrder[1] /\ UNCHANGED exit_status
               ELSE Exits(r.exit_status)
    /\ UNCHANGED <<argv, fs, sys_platform, out_file, trace, logged>>

----------------------------------------------------------------------------
(* ModuleBuilder.run and what it calls *)

\* the directory of wrap.py (__script_path) and the build directory
\* find_ell_build returns: symbolic paths
ScriptPath == "/ell/tools/wrap"
BuildRoot == "/ell/build"

\* an outside effect of run: a call of a collaborator or a change of a file
Event(step, detail) == [step |-> step, detail |-> detail]

\* an exception leaves run for the handler of __main__
Raise(e) ==
    /\ pc' = "except"
    /\ exc' = e

\* ModuleBuilder.start_timer: the time read is not modelled, the key is
start_timer(b, name) == [b EXCEPT !.times = Dict((name :> "started") @@ b.times.v)]

\* ModuleBuilder.stop_timer
stop_timer(b, name) == [b EXCEPT !.times = Dict((name :> "elapsed") @@ b.times.v)]

\* lines 382-384: find_ell.find_ell_build() and buildtools.EllBuildTools(),
\* collaborators that return or raise
run_find_ell ==
    /\ pc = "find_ell"
    /\ \/ /\ builder' = [builder EXCEPT !.build_root = Str(BuildRoot),
                                        !.ell_root = Str(path_dirname(BuildRoot)),
                                        !.tools = Str("EllBuildTools")]
          /\ pc' = After("find_ell")
          /\ UNCHANGED exc
       \/ /\ Raise(Exception("Exception", "could not find the ELL build"))
          /\ UNCHANGED builder
    /\ UNCHANGED <<argv, fs, sys_platform, out_file, trace, logged, exit_status>>

\* ModuleBuilder.find_files, called at line 385
find_files ==
    /\ pc = "find_files"
    /\ LET cmake == path_join(ScriptPath,
                              "templates/CMakeLists." \o builder.language.v \o ".txt.in")
           init == path_join(ScriptPath, "templates/__init__.py.in")
           b1 == [builder EXCEPT !.cmake_template = Str(cmake)]
           b2 == IF builder.language.v = "python"
                 THEN [b1 EXCEPT !.module_init_template = Str(init)]
                 ELSE b1
       IN IF cmake \notin fs
          THEN /\ Raise(Exception("Exception", "Could not find CMakeLists template"))
               /\ builder' = b1
          ELSE IF builder.language.v = "python" /\ init \notin fs
          THEN /\ Raise(Exception("Exception", "Could not find __init__.py template"))
               /\ builder' = b2
          ELSE /\ builder' = [b2 EXCEPT !.files = List(Append(builder.files.v,
                                  path_join(builder.ell_root.v, "CMake/OpenBLASSetup.cmake")))]
               /\ pc' = After("find_files")
               /\ UNCHANGED exc
    /\ UNCHANGED <<argv, fs, sys_platform, out_file, trace, logged, exit_status>>

RECURSIVE CopyLoop(_, _, _, _)
\* the for loop of copy_files: stops at the first path that is no file
CopyLoop(paths, target_dir, files, events) ==
    IF paths = <<>> THEN [error |-> FALSE, fs |-> files, trace |-> events]
    ELSE IF Head(paths) \notin files
    THEN [error |-> TRUE, fs |-> files, trace |-> events]
    ELSE LET dest == path_join(target_dir, path_tail(Head(paths)))
         IN CopyLoop(Tail(paths), target_dir, files \cup {dest},
                     Append(events, Event("copy", <<Head(paths), dest>>)))

\* ModuleBuilder.copy_files(filelist, folder) as the step at position here:
\* os.makedirs fails when the directory to make, or the output directory
\* above it, is a regular file
copy_files(filelist, folder, here) ==
    /\ pc = here
    /\ LET target_dir == IF folder = "" THEN builder.output_dir.v
                         ELSE path_join(builder.output_dir.v, folder)
           made == Append(trace, Event("makedirs", target_dir))
           copied == CopyLoop(filelist, target_dir, fs, made)
       IN IF target_dir \in fs \/ builder.output_dir.v \in fs
          THEN /\ Raise(Exception("FileExistsError", target_dir))
               /\ UNCHANGED <<fs, trace>>
          ELSE /\ fs' = copied.fs
               /\ trace' = copied.trace
               /\ IF copied.error
                  THEN Raise(Exception("Exception", "expected file not found"))
                  ELSE pc' = After(here) /\ UNCHANGED exc
    /\ UNCHANGED <<argv, sys_platform, builder, out_file, logged, exit_status>>

\* line 386
run_copy_files == copy_files(builder.files.v, "", "copy_files")

\* line 387
run_copy_includes == copy_files(builder.includes.v, "include", "copy_includes")

\* the keyword arguments of self.tools.compile, lines 389-410
CompileArguments(b) ==
    [ model_file |-> b.model_file, func_name |-> b.func_name, model_name |-> b.model_name,
      target |-> b.target, skip_ellcode |-> b.skip_ellcode, output_dir |-> b.output_dir,
      use_blas |-> b.blas, fuse_linear_ops |-> b.fuse_linear_ops,
      optimize_reorder_data_nodes |-> b.optimize_reorder, profile |-> b.profile,
      llvm_format |-> b.llvm_format, optimize |-> b.optimize, parallelize |-> b.parallelize,
      vectorize |-> b.vectorize, debug |-> b.debug, is_model_file |-> Bool(FALSE),
      swig |-> b.swig, header |-> b.cpp_header, objext |-> Str("." \o b.objext.v),
      global_value_alignment |-> b.global_value_alignment,
      extra_options |-> b.compile_args ]

\* the files the tools return: the tools are opaque, their results symbolic
CompileOutput == Str("compile.out")
OptOutput == Str("opt.out")
LlcOutput == Str("llc.out")

\* lines 388-411: the model compiler
run_compile ==
    /\ pc = "compile"
    /\ trace' = Append(trace, Event("compile", CompileArguments(builder)))
    /\ \/ /\ out_file' = CompileOutput
          /\ builder' = stop_timer(start_timer(builder, "compile"), "compile")
          /\ pc' = After("compile")
          /\ UNCHANGED exc
       \/ /\ Raise(Exception("Exception", "compile failed"))
          /\ builder' = start_timer(builder, "compile")
          /\ UNCHANGED out_file
    /\ UNCHANGED <<argv, fs, sys_platform, logged, exit_status>>

\* lines 414-438: the preprocessor defines handed to swig
SwigDefines(target, platform) ==
    IF target \in {"pi3", "pi0", "orangepi0"} THEN <<"-DSWIGWORDSIZE32", "-DLINUX">>
    ELSE IF target \in {"pi3_64", "aarch64"} THEN <<"-DSWIGWORDSIZE64", "-DLINUX">>
    ELSE IF target = "host"
    THEN (IF StartsWith(platform.name, "win32") THEN <<"-DWIN32", "-DSWIGWORDSIZE32">>
          ELSE IF StartsWith(platform.name, "linux")
          THEN <<"-DLINUX">> \o (IF platform.wide THEN <<"-DSWIGWORDSIZE64">>
                                 ELSE <<"-DSWIGWORDSIZE32">>)
          ELSE IF StartsWith(platform.name, "darwin") THEN <<"-DAPPLE">>
          ELSE <<>>)
    ELSE <<>>

\* lines 412-440: the interface generator
run_swig ==
    /\ pc = "swig"
    /\ IF Truthy(builder.swig)
       THEN /\ trace' = Append(trace,
                   Event("swig", <<builder.output_dir.v, builder.model_file_base.v,
                                   builder.language.v,
                                   SwigDefines(builder.target.v, sys_platform)>>))
            /\ \/ /\ builder' = stop_timer(start_timer(builder, "swig"), "swig")
                  /\ pc' = After("swig")
                  /\ UNCHANGED exc
               \/ /\ Raise(Exception("Exception", "swig failed"))
                  /\ builder' = start_timer(builder, "swig")
       ELSE /\ pc' = After("swig")
            /\ UNCHANGED <<trace, builder, exc>>
    /\ UNCHANGED <<argv, fs, sys_platform, out_file, logged, exit_status>>

\* opt called without its result being assigned to out_file
run_opt_keeps_input ==
    /\ pc = "opt"
    /\ IF ~Truthy(builder.no_opt_tool)
       THEN /\ trace' = Append(trace,
                   Event("opt", <<builder.output_dir.v, out_file.v,
                                  builder.optimization_level.v>>))
            /\ \/ /\ builder' = stop_timer(start_timer(builder, "opt"), "opt")
                  /\ pc' = After("opt")
                  /\ UNCHANGED exc
               \/ /\ Raise(Exception("Exception", "opt failed"))
                  /\ builder' = start_timer(builder, "opt")
       ELSE /\ pc' = After("opt")
            /\ UNCHANGED <<trace, builder, exc>>
    /\ UNCHANGED <<argv, fs, sys_platform, out_file, logged, exit_status>>

\* lines 441-444: LLVM's opt
run_opt ==
    /\ pc = "opt"
    /\ IF ~Truthy(builder.no_opt_tool)
       THEN /\ trace' = Append(trace,
                   Event("opt", <<builder.output_dir.v, out_file.v,
                                  builder.optimization_level.v>>))
            /\ \/ /\ out_file' = OptOutput
                  /\ builder' = stop_timer(start_timer(builder, "opt"), "opt")
                  /\ pc' = After("opt")
                  /\ UNCHANGED exc
               \/ /\ Raise(Exception("Exception", "opt failed"))
                  /\ builder' = start_timer(builder, "opt")
                  /\ UNCHANGED out_file
       ELSE /\ pc' = After("opt")
            /\ UNCHANGED <<trace, builder, out_file, exc>>
    /\ UNCHANGED <<argv, fs, sys_platform, logged, exit_status>>

\* llc called whether or not --no_llc_tool was given
run_llc_always ==
    /\ pc = "llc"
    /\ trace' = Append(trace,
           Event("llc", <<builder.output_dir.v, out_file.v, builder.target.v,
                          builder.optimization_level.v, "." \o builder.objext.v>>))
    /\ \/ /\ out_file' = LlcOutput
          /\ builder' = stop_timer(start_timer(builder, "llc"), "llc")
          /\ pc' = After("llc")
          /\ UNCHANGED exc
       \/ /\ Raise(Exception("Exception", "llc failed"))
          /\ builder' = start_timer(builder, "llc")
          /\ UNCHANGED out_file
    /\ UNCHANGED <<argv, fs, sys_platform, logged, exit_status>>

\* lines 445-449: LLVM's llc
run_llc ==
    /\ pc = "llc"
    /\ IF ~Truthy(builder.no_llc_tool)
       THEN /\ trace' = Append(trace,
                   Event("llc", <<builder.output_dir.v, out_file.v, builder.target.v,
                                  builder.optimization_level.v, "." \o builder.objext.v>>))
            /\ \/ /\ out_file' = LlcOutput
                  /\ builder' = stop_timer(start_timer(builder, "llc"), "llc")
                  /\ pc' = After("llc")
                  /\ UNCHANGED exc
               \/ /\ Raise(Exception("Exception", "llc failed"))
                  /\ builder' = start_timer(builder, "llc")
                  /\ UNCHANGED out_file
       ELSE /\ pc' = After("llc")
            /\ UNCHANGED <<trace, builder, out_file, exc>>
    /\ UNCHANGED <<argv, fs, sys_platform, logged, exit_status>>

\* open(filename, 'w') and the write, as the statement at position here:
\* the file is written, or the operating system refuses
WriteFile(here, filename, content) ==
    /\ pc = here
    /\ \/ /\ fs' = fs \cup {filename}
          /\ trace' = Append(trace, Event(here, <<filename, content>>))
          /\ pc' = After(here)
          /\ UNCHANGED exc
       \/ /\ Raise(Exception("OSError", filename))
          /\ UNCHANGED <<fs, trace>>
    /\ UNCHANGED <<argv, sys_platform, builder, out_file, logged, exit_status>>

\* a statement whose condition is false: the program moves on
Skip(here) ==
    /\ pc = here
    /\ pc' = After(here)
    /\ UNCHANGED <<argv, fs, sys_platform, builder, out_file, trace, exc, logged, exit_status>>

\* write_stats without the test of self.stats
write_stats_always ==
    WriteFile("write_stats", path_join(builder.output_dir.v, "wrap_stats.json"),
              builder.times.v)

\* ModuleBuilder.write_stats, called at line 450
write_stats ==
    IF Truthy(builder.stats)
    THEN WriteFile("write_stats", path_join(builder.output_dir.v, "wrap_stats.json"),
                   builder.times.v)
    ELSE Skip("write_stats")

\* platform.system()
PlatformSystem(platform) ==
    IF StartsWith(platform.name, "win32") THEN "Windows"
    ELSE IF StartsWith(platform.name, "linux") THEN "Linux"
    ELSE "Darwin"

\* lines 338-347 of create_template_file: the placeholders and what replaces them
TemplateValues(b, platform) ==
    [ ELL_outdir |-> path_basename(b.output_dir.v),
      ELL_model |-> b.model_file_base.v,
      ELL_model_name |-> b.model_name.v,
      Arch |-> b.target.v,
      OBJECT_EXTENSION |-> b.objext.v,
      ELL_ROOT |-> str_replace(path_join(b.ell_root.v, "external"), "\\", "/"),
      SHELL_TYPE |-> IF b.target.v = "host" /\ PlatformSystem(platform) = "Windows"
                     THEN "WINDOWS" ELSE "UNIX" ]

\* ModuleBuilder.create_template_file as the statement at position here;
\* the template was found by find_files and nothing removes it
create_template_file(here, template_filename, output_filename) ==
    WriteFile(here, path_join(builder.output_dir.v, output_filename),
              <<template_filename, TemplateValues(builder, sys_platform)>>)

\* ModuleBuilder.create_cmake_file, called at line 451
create_cmake_file ==
    create_template_file("create_cmake_file", builder.cmake_template.v, "CMakeLists.txt")

\* ModuleBuilder.create_module_init_file, called at lines 452-453
create_module_init_file ==
    IF builder.language.v = "python"
    THEN create_template_file("create_module_init_file", builder.module_init_template.v,
                              "__init__.py")
    ELSE Skip("create_module_init_file")

\* lines 454-458: the closing message; run returns and the program ends
run_success ==
    /\ pc = "success"
    /\ Exits(Num(0))
    /\ UNCHANGED <<argv, fs, sys_platform, builder, out_file, trace, exc, logged>>

\* lines 467-471: the handler of __main__ around builder.run()
main_except ==
    /\ pc = "except"
    /\ logged' = Append(logged, [prefix |-> "### WrapException", type |-> exc.type,
                                 value |-> exc.msg])
    /\ Exits(Num(1))
    /\ UNCHANGED <<argv, fs, sys_platform, builder, out_file, trace, exc>>

\* ModuleBuilder.save_config on builder b: nothing in wrap.py calls it; config
\* is None and config_file is never assigned, so the first statement raises
save_config(b) ==
    IF b.config.t # "dict"
    THEN [raised |-> TRUE, written |-> {}]
    ELSE IF b.config_file = Unset
    THEN [raised |-> TRUE, written |-> {}]
    ELSE [raised |-> FALSE,
          written |-> {<<path_join(b.output_dir.v, path_tail(b.config_file.v)),
                         [model |-> b.model_name.v,
                          func |-> b.model_name.v \o "_" \o b.func_name.v]>>}]

----------------------------------------------------------------------------
(* Command lines and file systems the program is started with *)

\* the most options on a command line, besides --model_file
MaxFlags == 2
\* the most words after the separator
MaxTail == 2

SeqsUpTo(S, n) == UNION {[1..k -> S] : k \in 0..n}

RECURSIVE Flatten(_)
Flatten(ss) == IF ss = <<>> THEN <<>> ELSE Head(ss) \o Flatten(Tail(ss))

Forms == {"long", "short"}

OptionToken(arg, form) == IF form = "long" THEN LongOption(arg) ELSE ShortOption(arg)

\* the values tried for the options that take one; some are not allowed
TestValues ==
    [ module_name |-> {"", "my_mod"},
      target |-> {"pi3", "bogus"},
      language |-> {"cpp"},
      llvm_format |-> {"ir"},
      outdir |-> {"out"},
      blas |-> {"Yes", "on"},
      optimization_level |-> {"0", "2"},
      global_value_alignment |-> {"064", "x"} ]

ModelFiles == {"models/my-model.ell"}

Segments(form) ==
    {<<OptionToken(arg, form)>> : arg \in {a \in ArgNames : ArgAction[a] = "store_true"}}
    \cup UNION {{<<OptionToken(arg, form), val>> : val \in TestValues[arg]} :
                arg \in DOMAIN TestValues}

ModelParts(form) == {<<>>} \cup {<<OptionToken("model_file", form), f>> : f \in ModelFiles}

\* argv is a command line without separator: --model_file or not, then options
FlagCommandLine ==
    \E form \in Forms : \E m \in ModelParts(form) :
        \E opts \in SeqsUpTo(Segments(form), MaxFlags) : argv = m \o Flatten(opts)

PassSegments == {<<"--target", "pi3">>, <<"--stats">>, <<"-ol", "0">>}
PassTokens == {"--stats", "-O3", "--"}

\* nothing, or the separator and the words after it
PassTails == {<<>>} \cup {<<"--">> \o tail : tail \in SeqsUpTo(PassTokens, MaxTail)}

\* argv is a command line with or without a separator and words after it
PassCommandLine ==
    \E m \in ModelParts("short") : \E opts \in SeqsUpTo(PassSegments, MaxFlags) :
        \E tail \in PassTails : argv = m \o Flatten(opts) \o tail

\* the files of an ELL checkout that wrap.py reads
BaseFiles ==
    { ScriptPath \o "/templates/CMakeLists.python.txt.in",
      ScriptPath \o "/templates/CMakeLists.cpp.txt.in",
      ScriptPath \o "/templates/__init__.py.in",
      "/ell/CMake/OpenBLASSetup.cmake" }

\* the program is started: the builder is constructed, nothing has run
Started(FileSystems, Platforms) ==
    /\ fs \in FileSystems
    /\ sys_platform \in Platforms
    /\ pc = "main"
    /\ builder = NewBuilder
    /\ out_file = Unset
    /\ trace = <<>>
    /\ exc = NoException
    /\ logged = <<>>
    /\ exit_status = None

InitParse ==
    /\ FlagCommandLine \/ PassCommandLine
    /\ Started({BaseFiles, BaseFiles \cup {"out.py", "pi3.py"}},
               {[name |-> "linux", wide |-> TRUE]})

NextParse == parse_command_line

\* the program up to the return of parse_command_line
SpecParse == InitParse /\ [][NextParse]_vars

\* the options run's control flow reads
RunSegments ==
    {<<"--language", "cpp">>, <<"--no_opt_tool">>, <<"--no_llc_tool">>, <<"-ol", "0">>,
     <<"--stats">>, <<"--outdir", "out">>, <<"-t", "pi3">>}

RunTails == {<<>>, <<"--", "-O3", "--target">>}

\* argv is a command line for run: options run reads, with or without
\* --model_file and pass-through words
RunCommandLine ==
    \E opts \in SeqsUpTo(RunSegments, MaxFlags) :
        \/ argv = Flatten(opts)
        \/ \E f \in ModelFiles, tail \in RunTails : argv = <<"-f", f>> \o Flatten(opts) \o tail

RunFileSystems ==
    { BaseFiles,
      BaseFiles \cup {"out.py", "host.py"},
      BaseFiles \cup {"out", "host"},
      BaseFiles \ {ScriptPath \o "/templates/CMakeLists.python.txt.in"},
      BaseFiles \ {ScriptPath \o "/templates/__init__.py.in"},
      BaseFiles \ {"/ell/CMake/OpenBLASSetup.cmake"} }

Platforms == {[name |-> "linux", wide |-> TRUE], [name |-> "win32", wide |-> TRUE]}

Init == RunCommandLine /\ Started(RunFileSystems, Platforms)

Next ==
    \/ parse_command_line
    \/ run_find_ell
    \/ find_files
    \/ run_copy_files
    \/ run_copy_includes
    \/ run_compile
    \/ run_swig
    \/ run_opt
    \/ run_llc
    \/ write_stats
    \/ create_cmake_file
    \/ create_module_init_file
    \/ run_success
    \/ main_except

\* the whole program: parse_command_line, then run inside the try
Spec == Init /\ [][Next]_vars


InitPass ==
    /\ PassCommandLine
    /\ Started({BaseFiles, BaseFiles \cup {"pi3.py"}}, {[name |-> "linux", wide |-> TRUE]})

\* the whole program on command lines with pass-through words
SpecPass == InitPass /\ [][Next]_vars

----------------------------------------------------------------------------
(* What the command line asks for, read off argv without the parser *)

\* the number of words before the first "--"
OwnLength ==
    CHOOSE n \in 0..Len(argv) :
        /\ \A i \in 1..n : argv[i] # "--"
        /\ n = Len(argv) \/ argv[n + 1] = "--"

OwnWords == SubSeq(argv, 1, OwnLength)
PassWords == SubSeq(argv, OwnLength + 2, Len(argv))

Positions(arg) == {i \in 1..OwnLength : argv[i] \in OptionStrings(arg)}
Supplied(arg) == Positions(arg) # {}

\* the word after the last occurrence of the flag
GivenWord(arg) == argv[(CHOOSE i \in Positions(arg) : \A j \in Positions(arg) : j <= i) + 1]

ValueFlags ==
    {"model_file", "module_name", "target", "language", "llvm_format", "outdir", "blas",
     "optimization_level", "global_value_alignment"}
SwitchFlags == ArgNames \ ValueFlags
NegatedFlags ==
    {"no_fuse_linear_ops", "no_optimize_reorder", "no_optimize", "no_parallelize",
     "no_vectorize"}

\* the attribute of the builder each flag is stored in
FieldOf ==
    [arg \in ArgNames |->
        CASE arg = "module_name" -> "model_name"
          [] arg = "outdir" -> "output_dir"
          [] arg = "no_fuse_linear_ops" -> "fuse_linear_ops"
          [] arg = "no_optimize_reorder" -> "optimize_reorder"
          [] arg = "no_optimize" -> "optimize"
          [] arg = "no_parallelize" -> "parallelize"
          [] arg = "no_vectorize" -> "vectorize"
          [] OTHER -> arg]

\* the flag as the builder records it: a negated attribute is read negated
Recorded(arg) ==
    IF arg \in NegatedFlags THEN Bool(~builder[FieldOf[arg]].v) ELSE builder[FieldOf[arg]]

\* the value given for a supplied flag, in the flag's declared type
GivenValue(arg) ==
    IF arg \in SwitchFlags THEN Bool(TRUE)
    ELSE IF arg = "global_value_alignment" THEN Num(DigitsValue(GivenWord(arg)))
    ELSE Str(GivenWord(arg))

\* parse_command_line has just returned
Parsed == pc = "find_ell"

\* the module name the model files of the command lines stand for
DerivedModelName == [f \in ModelFiles |-> "my_model"]

LanguageAsked == IF Supplied("language") THEN GivenWord("language") ELSE "python"
TargetAsked == IF Supplied("target") THEN GivenWord("target") ELSE "host"
LevelAsked == IF Supplied("optimization_level") THEN GivenWord("optimization_level") ELSE "3"
OutputDirAsked == IF Supplied("outdir") THEN GivenWord("outdir") ELSE TargetAsked

----------------------------------------------------------------------------
(* C1 *)

\* C1 as stated: after parse_command_line returns, every supplied flag's
\* attribute holds the given value (a valueless flag: that it was given),
\* whatever other flags were supplied.
C1_SuppliedFlagsSetFields ==
    Parsed => \A arg \in ArgNames : Supplied(arg) => Recorded(arg) = GivenValue(arg)

\* C1 as amended: the same for every flag but blas and module_name; blas is
\* stored as the boolean "the lower-cased value is one of yes, true, t, 1";
\* module_name is stored as given unless it is empty, and then the model
\* file's base name with '-' replaced by '_' is stored.
C1_SuppliedFlagsRecorded ==
    Parsed =>
      /\ \A arg \in ArgNames \ {"blas", "module_name"} :
            Supplied(arg) => Recorded(arg) = GivenValue(arg)
      /\ Supplied("blas") =>
            builder.blas = Bool(str_lower(GivenWord("blas")) \in {"yes", "true", "t", "1"})
      /\ Supplied("module_name") =>
            builder.model_name =
                IF GivenWord("module_name") # "" THEN Str(GivenWord("module_name"))
                ELSE Str(DerivedModelName[GivenWord("model_file")])

\* two flags are supplied, one of them blas with a value that is no "true"
C1_Witness ==
    /\ Parsed
    /\ Supplied("blas") /\ GivenWord("blas") = "on"
    /\ Supplied("no_parallelize")

----------------------------------------------------------------------------
(* C2 *)

\* the defaults as the claim lists them
DeclaredDefault ==
    [arg \in ArgNames \ {"model_file"} |->
        CASE arg = "target" -> Str("host")
          [] arg = "language" -> Str("python")
          [] arg = "llvm_format" -> Str("bc")
          [] arg = "optimization_level" -> Str("3")
          [] arg = "global_value_alignment" -> Num(32)
          [] arg = "blas" -> Str("true")
          [] arg \in {"module_name", "outdir"} -> None
          [] OTHER -> Bool(FALSE)]

\* C2 as stated: after parse_command_line returns, the attribute of every
\* omitted flag other than model_file holds the flag's declared default.
C2_OmittedFlagsHoldDefaults ==
    Parsed => \A arg \in ArgNames \ {"model_file"} :
                 ~Supplied(arg) => Recorded(arg) = DeclaredDefault[arg]

\* the omitted flags whose attribute holds the declared default as it is
PlainDefaults ==
    {"target", "language", "llvm_format", "optimization_level", "global_value_alignment",
     "skip_ellcode", "profile", "no_llc_tool", "debug", "stats", "no_fuse_linear_ops",
     "no_optimize_reorder", "no_optimize"}

\* C2 as amended: an omitted flag leaves the declared default in its
\* attribute for the flags of PlainDefaults (the three negated ones read
\* negated); an omitted blas is stored as the boolean True; an omitted
\* module_name as the model file's base name with '-' replaced by '_'; an
\* omitted outdir as the target; with no_opt_tool omitted the attribute is
\* True exactly when the optimization level is '0' or 'g'; with
\* no_parallelize or no_vectorize omitted the attribute equals optimize; with
\* verbose omitted the attribute is the logger's verbosity.
C2_OmittedFlagsFallBack ==
    Parsed =>
      /\ \A arg \in PlainDefaults : ~Supplied(arg) => Recorded(arg) = DeclaredDefault[arg]
      /\ ~Supplied("blas") => builder.blas = Bool(TRUE)
      /\ ~Supplied("module_name") =>
            builder.model_name = Str(DerivedModelName[GivenWord("model_file")])
      /\ ~Supplied("outdir") => builder.output_dir = Str(TargetAsked)
      /\ ~Supplied("no_opt_tool") => builder.no_opt_tool = Bool(LevelAsked \in {"0", "g"})
      /\ ~Supplied("no_parallelize") => builder.parallelize = Bool(~Supplied("no_optimize"))
      /\ ~Supplied("no_vectorize") => builder.vectorize = Bool(~Supplied("no_optimize"))
      /\ ~Supplied("verbose") => builder.verbose = Bool(builder.logger.v)

\* only --model_file and one more flag are supplied, every other flag omitted
C2_Witness ==
    /\ Parsed
    /\ Cardinality({arg \in ArgNames : Supplied(arg)}) = 2
    /\ Supplied("optimization_level")

----------------------------------------------------------------------------
(* C3 *)

\* the program is where parse_command_line left it
AfterParse == Parsed \/ (pc = "exited" /\ logged = <<>> /\ exit_status # Num(0))

\* C3: the words after the first "--" become compile_args, verbatim and in
\* order, and are the compiler's extra_options; parse_command_line does with
\* the words before it what it does when the command line ends there; without
\* "--", compile_args is empty.
C3_PassThrough ==
    /\ Parsed => builder.compile_args = List(PassWords)
    /\ AfterParse =>
          \E getVerbose \in BOOLEAN :
             LET alone == ParseResult(NewBuilder, OwnWords, fs, getVerbose)
             IN /\ alone.returned = Parsed
                /\ alone.exit_status = exit_status
                /\ alone.exc = exc
                /\ [alone.builder EXCEPT !.compile_args = Unset]
                      = [builder EXCEPT !.compile_args = Unset]
    /\ \A i \in 1..Len(trace) :
          trace[i].step = "compile" => trace[i].detail.extra_options = List(PassWords)

\* the compiler was called with two words that are also flags of the tool
C3_Witness ==
    /\ PassWords = <<"--stats", "--">>
    /\ \E i \in 1..Len(trace) : trace[i].step = "compile"
    /\ builder.stats = Bool(FALSE)

----------------------------------------------------------------------------
(* C4 *)

\* parse_command_line raised the exception of line 274; nothing was called
\* or written
ConflictRaised ==
    /\ pc = "exited"
    /\ exc = Exception("Exception", "python module conflicts with outdir")
    /\ trace = <<>>
    /\ logged = <<>>

\* C4 as stated: when a file with the name of the output directory exists,
\* parse_command_line raises and no tool is called and no file written.
C4_SameNamedFileRaises ==
    (pc # "main" /\ exc.type # "SystemExit" /\ OutputDirAsked \in fs) => ConflictRaised

\* C4 as amended: when a file with the name of the output directory followed
\* by ".py" exists, parse_command_line raises and no tool is called and no
\* file written.
C4_PythonModuleRaises ==
    (pc # "main" /\ exc.type # "SystemExit" /\ (OutputDirAsked \o ".py") \in fs)
        => ConflictRaised

\* --outdir names a directory whose python module exists, and the program ended
C4_Witness ==
    /\ ConflictRaised
    /\ Supplied("outdir")
    /\ (GivenWord("outdir") \o ".py") \in fs

----------------------------------------------------------------------------
(* C5 *)

\* C5: whatever fails, the failure is caught by the handler of __main__,
\* logged with its type and message, and the process exits with status 1.
C5_FailuresCaughtAndLogged ==
    (pc = "exited" /\ exc # NoException) =>
        /\ exit_status = Num(1)
        /\ logged = <<[prefix |-> "### WrapException", type |-> exc.type, value |-> exc.msg]>>

----------------------------------------------------------------------------
(* C6 *)

Steps(step) == {i \in 1..Len(trace) : trace[i].step = step}
Invoked(step) == Steps(step) # {}

\* the place of each effect in the order the claim gives
StatedRank ==
    [makedirs |-> 1, copy |-> 1, compile |-> 2, swig |-> 3, opt |-> 4, llc |-> 5,
     create_cmake_file |-> 6, write_stats |-> 7, create_module_init_file |-> 7]

\* the place of each effect with the stats file before the build descriptor
CodeRank ==
    [makedirs |-> 1, copy |-> 1, compile |-> 2, swig |-> 3, opt |-> 4, llc |-> 5,
     write_stats |-> 6, create_cmake_file |-> 7, create_module_init_file |-> 8]

\* the effects so far came after parsing and template lookup, in the order
\* of rank, none but the copying more than once
InOrder(rank) ==
    /\ trace # <<>> => builder.output_dir # Unset /\ builder.cmake_template # Unset
    /\ \A i, j \in 1..Len(trace) :
          i < j => /\ rank[trace[i].step] <= rank[trace[j].step]
                   /\ trace[i].step = trace[j].step => trace[i].step \in {"makedirs", "copy"}

\* C6 as stated: parse, resolve templates, copy, compile, swig, opt, llc,
\* build descriptor, then stats file and module-init file; no step twice.
C6_StatedOrder == InOrder(StatedRank)

\* C6 as amended: the same order, but the stats file is written before the
\* build descriptor and the module-init file after it.
C6_CodeOrder == InOrder(CodeRank)

\* a run that executed every step and ended well
C6_Witness ==
    /\ pc = "exited" /\ exit_status = Num(0)
    /\ \A step \in {"copy", "compile", "swig", "opt", "llc", "write_stats",
                    "create_cmake_file", "create_module_init_file"} : Invoked(step)

----------------------------------------------------------------------------
(* C7 *)

WriteSteps == {"write_stats", "create_cmake_file", "create_module_init_file"}

\* the run wrote the file of that name into the output directory
WroteOutput(name) ==
    /\ \E i \in 1..Len(trace) :
          trace[i].step \in WriteSteps /\ trace[i].detail[1] = path_join(OutputDirAsked, name)
    /\ path_join(OutputDirAsked, name) \in fs

RunSucceeded == pc = "exited" /\ exit_status = Num(0)

\* the positions of run before the first write
BeforeWriting ==
    {"main", "find_ell", "find_files", "copy_files", "copy_includes", "compile", "swig",
     "opt", "llc"}

\* C7: after a run without error CMakeLists.txt is written, __init__.py iff
\* the language is python, wrap_stats.json iff --stats was given; a run that
\* fails before the writing phase writes none of the three.
C7_OutputFiles ==
    /\ RunSucceeded =>
          /\ WroteOutput("CMakeLists.txt")
          /\ WroteOutput("__init__.py") <=> LanguageAsked = "python"
          /\ WroteOutput("wrap_stats.json") <=> Supplied("stats")
    /\ (pc \in BeforeWriting \/ (exc # NoException /\ exc.type # "OSError")) =>
          \A i \in 1..Len(trace) : trace[i].step \notin WriteSteps

\* a cpp run with --stats ended well: stats and descriptor, no __init__.py
C7_Witness ==
    /\ RunSucceeded
    /\ LanguageAsked = "cpp"
    /\ Supplied("stats")
    /\ WroteOutput("wrap_stats.json")

----------------------------------------------------------------------------
(* C8 *)

\* whatever the builder's state, calling save_config would raise
SaveConfigRaises == save_config(builder).raised

\* C8: a run of the tool writes the JSON config file.  Nothing in the program
\* calls save_config, so no run has the effect; stated of the runs that end
\* well, where every output has been written.
C8_ConfigFileWritten == RunSucceeded => Invoked("save_config")

----------------------------------------------------------------------------
(* C9 *)

SwigAsked == LanguageAsked # "cpp"
OptAsked == ~Supplied("no_opt_tool") /\ LevelAsked \notin {"0", "g"}
LlcAsked == ~Supplied("no_llc_tool")

AtMostOnce(step) == Cardinality(Steps(step)) <= 1

RunEnded == pc = "exited"

----------------------------------------------------------------------------
(* C10 *)

\* the input file handed to the tool by the call at place i of the trace
InputOf(i) == trace[i].detail[2]

\* C10: llc reads the file opt returned when opt was invoked and the file
\* the compiler returned otherwise; opt reads the file the compiler returned;
\* swig changes nothing about the file passed on.
C10_FilePassedOn ==
    /\ \A i \in Steps("opt") : InputOf(i) = CompileOutput.v
    /\ \A i \in Steps("llc") :
          InputOf(i) = IF \E j \in Steps("opt") : j < i THEN OptOutput.v ELSE CompileOutput.v
    /\ pc = "opt" => out_file = CompileOutput

\* llc was handed opt's file in a run in which swig ran in between
C10_Witness ==
    /\ \E i \in Steps("llc") : InputOf(i) = OptOutput.v
    /\ Invoked("swig")

====
